---- MODULE Spec2Model ----
(***************************************************************************)
(* Model of the three report generators of the repository:                 *)
(*   Endpoint-health-checker/src/report.py  (endpoint health report)       *)
(*   log-parser/src/report.py               (performance / event report)   *)
(*   backup-verifier/src/report.py          (backup job report)            *)
(*                                                                         *)
(* Conventions.                                                            *)
(*  - An optional value (Python None or a missing dict key) is a sequence  *)
(*    of length 0 or 1: None == <<>>, Some(v) == <<v>>.                     *)
(*  - A Python str is a sequence of chunks.  A chunk is a non-empty piece  *)
(*    of text holding no backslash and no leading or trailing whitespace,  *)
(*    or the single backslash, or the single blank.  strip(), lower() and  *)
(*    the regular expression of normalize_counter_path act on chunks the   *)
(*    way they act on the characters of the text.                          *)
(*  - A float read from the input is sampled at integer points; a time is  *)
(*    a number of seconds.                                                 *)
(*  - An f-string is a record: its template and its formatted arguments.   *)
(***************************************************************************)
EXTENDS Integers, Sequences, FiniteSets, TLC

VARIABLES
    fn,            \* classification call under evaluation: the function's name
    args,          \* its arguments
    ret,           \* <<>> before the call returns, <<value>> after
    pc,            \* endpoint main: the statement main is about to execute
    files,         \* endpoint main: the documents of --outdir and --thresholds
    thresholds,    \* endpoint main: thresholds (t in the source)
    disks,         \* endpoint main: list of disk records (annotated in place)
    resource,      \* endpoint main: resource snapshot
    services,      \* endpoint main: list of service records
    reboot,        \* endpoint main: reboot record
    defender,      \* endpoint main: defender record
    findings,      \* endpoint main: list of findings
    auto_stopped,  \* endpoint main: services not allow-listed
    disk_idx,      \* endpoint main: index of the disk loop
    outdir,        \* every main: report.json and report.html as written
    jobs,          \* backup main: the jobs load_jobs returned
    results,       \* backup main: list of result rows
    job_idx,       \* backup main: index of the job loop
    html_out,      \* backup main: <<>> until build_html returned, then <<document>>
    sysinfo,       \* log-parser main: system_info.json
    perf,          \* log-parser main: the rows read_perf_summary returned
    sys_events,    \* log-parser main: rows of events_system.csv
    app_events,    \* log-parser main: rows of events_application.csv
    report_html    \* log-parser main: <<>> until build_html returned, then <<document>>

callvars == <<fn, args, ret>>

\* locals of the endpoint main
endpointvars == <<disks, resource, services, reboot, defender, findings, auto_stopped,
                  disk_idx>>

\* locals of the backup main
backupvars == <<jobs, results, job_idx, html_out>>

\* locals of the log-parser main
perfvars == <<sysinfo, perf, sys_events, app_events, report_html>>

mainvars == <<pc, files, thresholds, disks, resource, services, reboot, defender,
              findings, auto_stopped, disk_idx, outdir, backupvars, perfvars>>

vars == <<fn, args, ret, pc, files, thresholds, disks, resource, services, reboot, defender,
          findings, auto_stopped, disk_idx, outdir, jobs, results, job_idx, html_out,
          sysinfo, perf, sys_events, app_events, report_html>>

----------------------------------------------------------------------------
(* Optional values *)

None == <<>>

Some(v) == <<v>>

IsNone(o) == o = <<>>

Opt(S) == {None} \cup {Some(v) : v \in S}

----------------------------------------------------------------------------
(* Bounds of the model *)

MaxFreePct == 10      \* disk FreePercent and its boundaries range over 0..MaxFreePct

MaxLoad == 1          \* CPU / memory percentages: 0..MaxLoad and the scenario's values

Delta == 1            \* perf values sampled within Delta of each boundary

MaxDays == 3          \* warning_days / stale_days range over 1..MaxDays

MaxDisks == 2         \* disk.json holds at most MaxDisks records

MaxServices == 2      \* services.json holds at most MaxServices records

MaxJobs == 3          \* the jobs CSV holds at most MaxJobs rows

MaxRows == 2          \* perf_summary.csv holds at most MaxRows rows

MaxEvents == 2        \* events_system.csv holds at most MaxEvents rows

----------------------------------------------------------------------------
(* Text: str.strip, str.lower *)

BS == "\\"

SP == " "

\* str.lower on one chunk: the mixed-case chunks of the model and their lower case
LowerTable ==
    [c \in {"Success", "SUCCESS", "Warning", "WARNING", "Failed", "FAILED",
            "Error", "HOST", "Processor(_Total)", "% Processor Time",
            "Memory", "Available MBytes", "Spooler", "SPOOLER", "WSearch",
            "PROCESSOR(_TOTAL)", "% PROCESSOR TIME", "MEMORY", "AVAILABLE MBYTES",
            "Network Interface", "NETWORK INTERFACE", "Bytes Total/sec",
            "BYTES TOTAL/SEC", "WEB-01"} |->
        CASE c = "Success" -> "success"
          [] c = "SUCCESS" -> "success"
          [] c = "Warning" -> "warning"
          [] c = "WARNING" -> "warning"
          [] c = "Failed" -> "failed"
          [] c = "FAILED" -> "failed"
          [] c = "Error" -> "error"
          [] c = "HOST" -> "host"
          [] c = "Processor(_Total)" -> "processor(_total)"
          [] c = "% Processor Time" -> "% processor time"
          [] c = "Memory" -> "memory"
          [] c = "Available MBytes" -> "available mbytes"
          [] c = "Spooler" -> "spooler"
          [] c = "SPOOLER" -> "spooler"
          [] c = "WSearch" -> "wsearch"
          [] c = "PROCESSOR(_TOTAL)" -> "processor(_total)"
          [] c = "% PROCESSOR TIME" -> "% processor time"
          [] c = "MEMORY" -> "memory"
          [] c = "AVAILABLE MBYTES" -> "available mbytes"
          [] c = "Network Interface" -> "network interface"
          [] c = "NETWORK INTERFACE" -> "network interface"
          [] c = "Bytes Total/sec" -> "bytes total/sec"
          [] c = "BYTES TOTAL/SEC" -> "bytes total/sec"
          [] c = "WEB-01" -> "web-01"]

LowerChunk(c) == IF c \in DOMAIN LowerTable THEN LowerTable[c] ELSE c

Lower(s) == [i \in DOMAIN s |-> LowerChunk(s[i])]

RECURSIVE LStrip(_)
LStrip(s) == IF s # <<>> /\ Head(s) = SP THEN LStrip(Tail(s)) ELSE s

RECURSIVE RStrip(_)
RStrip(s) ==
    IF s # <<>> /\ s[Len(s)] = SP THEN RStrip(SubSeq(s, 1, Len(s) - 1)) ELSE s

Strip(s) == RStrip(LStrip(s))

\* the elements of a Python list, as a set
Range(q) == {q[i] : i \in DOMAIN q}

----------------------------------------------------------------------------
(* Severity *)

Severity == {"OK", "WARN", "ALERT"}

\* urgency of a severity: ALERT > WARN > OK
Urgency(s) == CASE s = "ALERT" -> 2 [] s = "WARN" -> 1 [] OTHER -> 0

MoreSevere(a, b) == IF Urgency(a) >= Urgency(b) THEN a ELSE b

\* f"{x:.2f}" of an integer-valued x, in hundredths
F2(x) == x * 100

\* an f-string: template and formatted arguments
Msg(text, fmtargs) == [text |-> text, args |-> fmtargs]

----------------------------------------------------------------------------
(* Endpoint-health-checker: classify_disk, classify_resource *)

classify_disk(d, t) ==
    LET pct == d.FreePercent IN
    IF IsNone(pct) THEN <<"WARN", Msg("No disk size/free data", <<>>)>>
    ELSE IF pct[1] < t.disk_free_alert_pct
        THEN <<"ALERT", Msg("Low disk space: {pct:.2f}% free", <<F2(pct[1])>>)>>
    ELSE IF pct[1] < t.disk_free_warn_pct
        THEN <<"WARN", Msg("Disk space getting low: {pct:.2f}% free", <<F2(pct[1])>>)>>
    ELSE <<"OK", Msg("Disk space OK", <<>>)>>

\* classify_cpu with the warn boundary tested before the alert boundary
classify_cpu_warn_first(cpu, t) ==
    IF ~IsNone(cpu) THEN
        IF cpu[1] >= t.cpu_warn_pct
            THEN IF cpu[1] >= t.cpu_alert_pct
                   THEN <<"ALERT", "CPU", Msg("High CPU load: {cpu:.2f}%", <<F2(cpu[1])>>)>>
                   ELSE <<"WARN", "CPU", Msg("Elevated CPU load: {cpu:.2f}%", <<F2(cpu[1])>>)>>
        ELSE <<"OK", "CPU", Msg("CPU load OK: {cpu:.2f}%", <<F2(cpu[1])>>)>>
    ELSE <<"WARN", "CPU", Msg("CPU load unavailable", <<>>)>>

classify_cpu(cpu, t) ==
    IF ~IsNone(cpu) THEN
        IF cpu[1] >= t.cpu_alert_pct
            THEN <<"ALERT", "CPU", Msg("High CPU load: {cpu:.2f}%", <<F2(cpu[1])>>)>>
        ELSE IF cpu[1] >= t.cpu_warn_pct
            THEN <<"WARN", "CPU", Msg("Elevated CPU load: {cpu:.2f}%", <<F2(cpu[1])>>)>>
        ELSE <<"OK", "CPU", Msg("CPU load OK: {cpu:.2f}%", <<F2(cpu[1])>>)>>
    ELSE <<"WARN", "CPU", Msg("CPU load unavailable", <<>>)>>

classify_mem(mem, t) ==
    IF ~IsNone(mem) THEN
        IF mem[1] >= t.mem_used_alert_pct
            THEN <<"ALERT", "Memory", Msg("High memory usage: {mem:.2f}%", <<F2(mem[1])>>)>>
        ELSE IF mem[1] >= t.mem_used_warn_pct
            THEN <<"WARN", "Memory", Msg("Elevated memory usage: {mem:.2f}%", <<F2(mem[1])>>)>>
        ELSE <<"OK", "Memory", Msg("Memory usage OK: {mem:.2f}%", <<F2(mem[1])>>)>>
    ELSE <<"WARN", "Memory", Msg("Memory usage unavailable", <<>>)>>

classify_resource(r, t) ==
    <<classify_cpu(r.CpuLoadPercent, t), classify_mem(r.MemoryUsedPercent, t)>>

----------------------------------------------------------------------------
(* log-parser: normalize_counter_path, friendly_counter_name, classify_perf, *)
(* read_perf_summary                                                        *)

\* index of the first backslash of s at or after position i, 0 when there is none
RECURSIVE FirstBS(_, _)
FirstBS(s, i) ==
    IF i > Len(s) THEN 0 ELSE IF s[i] = BS THEN i ELSE FirstBS(s, i + 1)

\* re.match(r"^\\\\[^\\]+\\(.*)$", s): None, or Some(group(1))
HostPrefixMatch(s) ==
    IF Len(s) >= 4 /\ s[1] = BS /\ s[2] = BS /\ s[3] # BS /\ FirstBS(s, 4) # 0
        THEN Some(SubSeq(s, FirstBS(s, 4) + 1, Len(s)))
        ELSE None

\* normalize_counter_path without the final lower()
normalize_counter_path_keep_case(raw) ==
    LET s == Strip(raw)
        m == HostPrefixMatch(s)
    IN IF ~IsNone(m) THEN <<BS>> \o m[1] ELSE s

normalize_counter_path(raw) ==
    LET s == Strip(raw)
        m == HostPrefixMatch(s)
    IN Lower(IF ~IsNone(m) THEN <<BS>> \o m[1] ELSE s)

KeyCpu == <<BS, "processor(_total)", BS, "% processor time">>

KeyCommitted == <<BS, "memory", BS, "% committed bytes in use">>

KeyAvailable == <<BS, "memory", BS, "available mbytes">>

KeyDiskQueue == <<BS, "physicaldisk(_total)", BS, "avg. disk queue length">>

friendly_counter_name(norm) ==
    CASE norm = KeyCpu -> <<"CPU % Processor Time (Total)">>
      [] norm = KeyCommitted -> <<"Memory % Committed Bytes In Use">>
      [] norm = KeyAvailable -> <<"Memory Available MB">>
      [] norm = KeyDiskQueue -> <<"Disk Avg. Disk Queue Length (Total)">>
      [] OTHER -> norm

\* thresholds.get(norm) of classify_perf
PerfThresholds(norm) ==
    CASE norm = KeyCpu -> Some([warn |-> 70, alert |-> 85])
      [] norm = KeyCommitted -> Some([warn |-> 75, alert |-> 85])
      [] norm = KeyDiskQueue -> Some([warn |-> 2, alert |-> 4])
      [] norm = KeyAvailable -> Some([warn_low |-> 1024, alert_low |-> 512])
      [] OTHER -> None

\* f"{x:.1f}" of an integer-valued x, in tenths
F1(x) == x * 10

classify_perf_low(t, avg, maxv) ==
    IF maxv <= t.alert_low \/ avg <= t.alert_low
        THEN <<"ALERT", Msg("Low available memory (avg={avg:.1f} MB, max={maxv:.1f} MB)",
                            <<F1(avg), F1(maxv)>>)>>
    ELSE IF maxv <= t.warn_low \/ avg <= t.warn_low
        THEN <<"WARN", Msg("Low available memory (avg={avg:.1f} MB, max={maxv:.1f} MB)",
                           <<F1(avg), F1(maxv)>>)>>
    ELSE <<"OK", Msg("Within normal range", <<>>)>>

\* classify_perf_high testing the average only
classify_perf_high_avg_only(t, avg, maxv) ==
    IF avg >= t.alert
        THEN <<"ALERT", Msg("High usage (avg={avg:.1f}, max={maxv:.1f})",
                            <<F1(avg), F1(maxv)>>)>>
    ELSE IF avg >= t.warn
        THEN <<"WARN", Msg("Elevated usage (avg={avg:.1f}, max={maxv:.1f})",
                           <<F1(avg), F1(maxv)>>)>>
    ELSE <<"OK", Msg("Within normal range", <<>>)>>

classify_perf_high(t, avg, maxv) ==
    IF maxv >= t.alert \/ avg >= t.alert
        THEN <<"ALERT", Msg("High usage (avg={avg:.1f}, max={maxv:.1f})",
                            <<F1(avg), F1(maxv)>>)>>
    ELSE IF maxv >= t.warn \/ avg >= t.warn
        THEN <<"WARN", Msg("Elevated usage (avg={avg:.1f}, max={maxv:.1f})",
                           <<F1(avg), F1(maxv)>>)>>
    ELSE <<"OK", Msg("Within normal range", <<>>)>>

classify_perf(norm, avg, maxv) ==
    LET t == PerfThresholds(norm) IN
    IF IsNone(t) THEN <<"OK", Msg("No threshold set", <<>>)>>
    ELSE IF "warn_low" \in DOMAIN t[1] THEN classify_perf_low(t[1], avg, maxv)
    ELSE classify_perf_high(t[1], avg, maxv)

(* A CSV cell read by csv.DictReader: None (the row is short), or a text.    *)
(* A numeric cell's text is empty, a number float() parses, or other text.  *)
CellMissing == [kind |-> "missing", v |-> 0]

CellEmpty == [kind |-> "empty", v |-> 0]

CellText == [kind |-> "text", v |-> 0]

CellNumber(n) == [kind |-> "number", v |-> n]

\* float(r.get(k, "0") or 0): None and "" give 0.0; unparsable text raises ValueError
FloatOrZero(cell) ==
    CASE cell.kind = "number" -> [raised |-> FALSE, v |-> cell.v]
      [] cell.kind = "text" -> [raised |-> TRUE, v |-> 0]
      [] OTHER -> [raised |-> FALSE, v |-> 0]

\* the body of read_perf_summary's loop for one row r
perf_row(r) ==
    LET raw == IF IsNone(r.Counter) THEN <<>> ELSE r.Counter[1]
        avg == FloatOrZero(r.Avg)
        maxv == FloatOrZero(r.Max)
        samples == FloatOrZero(r.Samples)
        norm == normalize_counter_path(raw)
        c == classify_perf(norm, avg.v, maxv.v)
    IN IF avg.raised \/ maxv.raised \/ samples.raised
        THEN [raised |-> TRUE]
        ELSE [raised |-> FALSE,
              counter_raw |-> raw,
              counter_norm |-> norm,
              counter_name |-> friendly_counter_name(norm),
              avg |-> avg.v,
              max |-> maxv.v,
              samples |-> samples.v,
              status |-> c[1],
              reason |-> c[2]]

----------------------------------------------------------------------------
(* backup-verifier: parse_dt, days_since, Job.from_row, classify_job *)

SecondsPerDay == 86400

(* The text of a timestamp cell: empty, blank (whitespace only), garbage     *)
(* (datetime.fromisoformat raises), or an ISO timestamp, naive or with a UTC *)
(* offset; "at" is the instant in seconds.                                   *)
TsEmpty == [form |-> "empty", at |-> 0, aware |-> FALSE]

TsBlank == [form |-> "blank", at |-> 0, aware |-> FALSE]

TsGarbage == [form |-> "garbage", at |-> 0, aware |-> FALSE]

TsIso(at, aware) == [form |-> "iso", at |-> at, aware |-> aware]

\* parse_dt(s): None, or Some(datetime)
parse_dt(s) ==
    IF s.form \in {"empty", "blank"} THEN None
    ELSE IF s.form = "iso" THEN Some([at |-> s.at, aware |-> s.aware])
    ELSE None

\* days_since(dt, now), in seconds; subtracting an aware datetime from the
\* naive now raises TypeError
days_since(dt, now) ==
    IF IsNone(dt) THEN [raised |-> FALSE, d |-> None]
    ELSE IF dt[1].aware THEN [raised |-> TRUE, d |-> None]
    ELSE [raised |-> FALSE, d |-> Some(now - dt[1].at)]

\* r.get(k) or "" of a CSV cell holding text
TextOrEmpty(cell) == IF IsNone(cell) THEN <<>> ELSE cell[1]

\* r.get(k) or "" of a CSV cell holding a timestamp
TsOrEmpty(cell) == IF IsNone(cell) THEN TsEmpty ELSE cell[1]

\* Job.from_row: the duration cell is None, or Some of a numeric cell
from_row(r) ==
    [job_name |-> Strip(TextOrEmpty(r.job_name)),
     last_run |-> parse_dt(TsOrEmpty(r.last_run)),
     last_result |-> Strip(TextOrEmpty(r.last_result)),
     last_success |-> parse_dt(TsOrEmpty(r.last_success)),
     duration_minutes |->
        IF ~IsNone(r.duration_minutes) /\ r.duration_minutes[1].kind = "number"
            THEN Some(r.duration_minutes[1].v) ELSE None,
     notes |-> Strip(TextOrEmpty(r.notes))]

\* t.get(key, default)
Get(o, default) == IF IsNone(o) THEN default ELSE o[1]

\* set(v.lower() for v in values)
LowerSet(values) == {Lower(v) : v \in Range(values)}

\* f"{d:.1f}" of d seconds expressed in days, in tenths (round to nearest)
F1Days(d) == (20 * d + SecondsPerDay) \div (2 * SecondsPerDay)

\* the reason of a job is text built by concatenation: a sequence of parts
LastResultIs(job) == <<Msg("Last result is {job.last_result}", <<job.last_result>>)>>

\* classify_stale treating a missing last_success like any other absent field (WARN)
classify_stale_absent_warn(job, now, t, base) ==
    LET warn_days == Get(t.warning_days, 2)
        stale_days == Get(t.stale_days, 3)
        ds == days_since(job.last_success, now)
        d == ds.d
    IN IF ds.raised THEN <<"TypeError", <<>>>>
       ELSE IF IsNone(d) THEN <<"WARN", <<Msg("No last_success timestamp", <<>>)>>>>
       ELSE IF d[1] >= stale_days * SecondsPerDay
           THEN <<"ALERT", <<Msg("Stale: last success {d:.1f} days ago", <<F1Days(d[1])>>)>>>>
       ELSE IF d[1] >= warn_days * SecondsPerDay
           THEN IF base[1] = "OK"
                  THEN <<"WARN", <<Msg("Approaching stale: last success {d:.1f} days ago",
                                       <<F1Days(d[1])>>)>>>>
                  ELSE <<"WARN", base[2] \o
                                 <<Msg("; also last success {d:.1f} days ago",
                                       <<F1Days(d[1])>>)>>>>
       ELSE base

\* classify_stale with strict comparisons against stale_days and warning_days
classify_stale_strict(job, now, t, base) ==
    LET warn_days == Get(t.warning_days, 2)
        stale_days == Get(t.stale_days, 3)
        ds == days_since(job.last_success, now)
        d == ds.d
    IN IF ds.raised THEN <<"TypeError", <<>>>>
       ELSE IF IsNone(d) THEN <<"ALERT", <<Msg("No last_success timestamp", <<>>)>>>>
       ELSE IF d[1] > stale_days * SecondsPerDay
           THEN <<"ALERT", <<Msg("Stale: last success {d:.1f} days ago", <<F1Days(d[1])>>)>>>>
       ELSE IF d[1] > warn_days * SecondsPerDay
           THEN IF base[1] = "OK"
                  THEN <<"WARN", <<Msg("Approaching stale: last success {d:.1f} days ago",
                                       <<F1Days(d[1])>>)>>>>
                  ELSE <<"WARN", base[2] \o
                                 <<Msg("; also last success {d:.1f} days ago",
                                       <<F1Days(d[1])>>)>>>>
       ELSE base

\* the staleness part of classify_job, given the base (status, reason)
classify_stale(job, now, t, base) ==
    LET warn_days == Get(t.warning_days, 2)
        stale_days == Get(t.stale_days, 3)
        ds == days_since(job.last_success, now)
        d == ds.d
    IN IF ds.raised THEN <<"TypeError", <<>>>>
       ELSE IF IsNone(d) THEN <<"ALERT", <<Msg("No last_success timestamp", <<>>)>>>>
       ELSE IF d[1] >= stale_days * SecondsPerDay
           THEN <<"ALERT", <<Msg("Stale: last success {d:.1f} days ago", <<F1Days(d[1])>>)>>>>
       ELSE IF d[1] >= warn_days * SecondsPerDay
           THEN IF base[1] = "OK"
                  THEN <<"WARN", <<Msg("Approaching stale: last success {d:.1f} days ago",
                                       <<F1Days(d[1])>>)>>>>
                  ELSE <<"WARN", base[2] \o
                                 <<Msg("; also last success {d:.1f} days ago",
                                       <<F1Days(d[1])>>)>>>>
       ELSE base

\* classify_job comparing last_result without lower-casing it
classify_job_case_sensitive(job, now, t) ==
    LET allowed_warn == LowerSet(Get(t.allowed_warning_values, <<<<"warning">>>>))
        allowed_fail == LowerSet(Get(t.allowed_fail_values, <<<<"failed">>, <<"error">>>>))
        res == job.last_result
    IN IF res \in allowed_fail THEN <<"ALERT", LastResultIs(job)>>
       ELSE IF res \in allowed_warn
           THEN IF Get(t.fail_on_warning_result, FALSE)
                  THEN <<"ALERT", LastResultIs(job)>>
                  ELSE classify_stale(job, now, t, <<"WARN", LastResultIs(job)>>)
       ELSE classify_stale(job, now, t, <<"OK", <<Msg("Last result OK", <<>>)>>>>)

classify_job(job, now, t) ==
    LET allowed_success == LowerSet(Get(t.allowed_success_values, <<<<"success">>>>))
        allowed_warn == LowerSet(Get(t.allowed_warning_values, <<<<"warning">>>>))
        allowed_fail == LowerSet(Get(t.allowed_fail_values, <<<<"failed">>, <<"error">>>>))
        res == Lower(job.last_result)
    IN IF res \in allowed_fail THEN <<"ALERT", LastResultIs(job)>>
       ELSE IF res \in allowed_warn
           THEN IF Get(t.fail_on_warning_result, FALSE)
                  THEN <<"ALERT", LastResultIs(job)>>
                  ELSE classify_stale(job, now, t, <<"WARN", LastResultIs(job)>>)
       ELSE classify_stale(job, now, t, <<"OK", <<Msg("Last result OK", <<>>)>>>>)

----------------------------------------------------------------------------
(* Inputs of the classification calls *)

FreeValues == 0..MaxFreePct

DiskArgs ==
    {[d |-> [FreePercent |-> p],
      t |-> [disk_free_warn_pct |-> w, disk_free_alert_pct |-> a]] :
        p \in Opt(FreeValues), w \in FreeValues, a \in FreeValues}

LoadValues == (0..MaxLoad) \cup {50, 70, 85}

ResourceArgs ==
    {[r |-> [CpuLoadPercent |-> c, MemoryUsedPercent |-> m],
      t |-> [cpu_warn_pct |-> cw, cpu_alert_pct |-> ca,
             mem_used_warn_pct |-> mw, mem_used_alert_pct |-> ma]] :
        c \in Opt(LoadValues), m \in Opt(LoadValues),
        cw \in LoadValues, ca \in LoadValues, mw \in LoadValues, ma \in LoadValues}

----------------------------------------------------------------------------
PerfBoundaries == {70, 75, 85, 2, 4, 1024, 512}

PerfValues == {0} \cup {b + k : b \in PerfBoundaries, k \in (0 - Delta)..Delta}

PerfNorms == {KeyCpu, KeyCommitted, KeyAvailable, KeyDiskQueue,
              <<BS, "unknown counter">>, <<>>}

PerfArgs == {[norm |-> n, avg |-> a, maxv |-> m] :
                n \in PerfNorms, a \in PerfValues, m \in PerfValues}

RawCounters ==
    {<<>>,
     <<BS, BS, "HOST", BS, "Processor(_Total)", BS, "% Processor Time">>,
     <<BS, "memory", BS, "% committed bytes in use">>,
     <<SP, BS, BS, "host", BS, "Memory", BS, "Available MBytes", SP>>,
     <<BS, "unknown counter">>}

NumberCells == {CellMissing, CellEmpty, CellText} \cup {CellNumber(n) : n \in PerfValues}

PerfRowArgs ==
    {[r |-> [Counter |-> c, Avg |-> a, Max |-> m, Samples |-> CellNumber(12)]] :
        c \in Opt(RawCounters), a \in NumberCells, m \in NumberCells}

(* Counter paths that differ only in the host segment and in letter case:   *)
(* a path without host in three spellings, and the host segments put in     *)
(* front of it.                                                             *)
CounterBodies ==
    {[given |-> <<BS, "Processor(_Total)", BS, "% Processor Time">>,
      upper |-> <<BS, "PROCESSOR(_TOTAL)", BS, "% PROCESSOR TIME">>,
      lower |-> <<BS, "processor(_total)", BS, "% processor time">>],
     [given |-> <<BS, "Memory", BS, "Available MBytes">>,
      upper |-> <<BS, "MEMORY", BS, "AVAILABLE MBYTES">>,
      lower |-> <<BS, "memory", BS, "available mbytes">>],
     [given |-> <<BS, "Network Interface", BS, "Bytes Total/sec">>,
      upper |-> <<BS, "NETWORK INTERFACE", BS, "BYTES TOTAL/SEC">>,
      lower |-> <<BS, "network interface", BS, "bytes total/sec">>]}

HostSegments == {<<>>, <<BS, BS, "HOST">>, <<BS, BS, "web-01">>, <<BS, BS, "WEB-01">>}

CounterVariants(body) == {h \o sp : h \in HostSegments, sp \in {body.given, body.upper, body.lower}}

NormalizeValues == {0, 80, 600, 2000}

NormalizeArgs ==
    UNION {{[body |-> body, a |-> a, b |-> b, avg |-> avg, maxv |-> maxv] :
                a \in CounterVariants(body), b \in CounterVariants(body),
                avg \in NormalizeValues, maxv \in {80, 2000}} :
            body \in CounterBodies}

\* datetime.now() of the run
NowT == 10 * SecondsPerDay

\* ages of the last success: a day in the future, now, and around every whole day
Ages == {0 - SecondsPerDay, 0}
        \cup {k * SecondsPerDay - e : k \in 1..(MaxDays + 1), e \in {0, 1}}

TsCells == {None, Some(TsEmpty), Some(TsBlank), Some(TsGarbage),
            Some(TsIso(NowT - SecondsPerDay, TRUE))}
           \cup {Some(TsIso(NowT - a, FALSE)) : a \in Ages}

ResultCells == {None, Some(<<"SUCCESS">>), Some(<<"Warning", SP>>), Some(<<"Failed">>),
                Some(<<"error">>), Some(<<"unknown">>)}

JobThresholds ==
    {[allowed_success_values |-> s, allowed_warning_values |-> w,
      allowed_fail_values |-> f, fail_on_warning_result |-> e,
      warning_days |-> wd, stale_days |-> sd] :
        s \in {None, Some(<<<<"Failed">>>>)},
        w \in {None, Some(<<<<"SUCCESS">>, <<"Failed">>>>), Some(<<>>)},
        f \in {None, Some(<<<<"FAILED">>>>), Some(<<>>)},
        e \in Opt(BOOLEAN),
        wd \in Opt(1..MaxDays), sd \in Opt(1..MaxDays)}

JobArgs ==
    {[r |-> [job_name |-> Some(<<"nightly">>), last_run |-> None, last_result |-> res,
             last_success |-> ls, duration_minutes |-> None, notes |-> None],
      now |-> NowT, t |-> t] :
        res \in ResultCells, ls \in TsCells, t \in JobThresholds}

----------------------------------------------------------------------------
(* The classification calls *)

\* the backup main is not running
BackupIdle ==
    jobs = <<>> /\ results = <<>> /\ job_idx = 0 /\ html_out = <<>>

\* the log-parser main is not running
PerfIdle ==
    /\ sysinfo = <<>> /\ perf = <<>> /\ sys_events = <<>> /\ app_events = <<>>
    /\ report_html = <<>>

\* main is not running during a classification call
MainIdle ==
    /\ pc = "idle" /\ files = <<>> /\ thresholds = <<>> /\ disks = <<>> /\ resource = <<>>
    /\ services = <<>> /\ reboot = <<>> /\ defender = <<>> /\ findings = <<>>
    /\ auto_stopped = <<>> /\ disk_idx = 0 /\ outdir = <<>>
    /\ BackupIdle /\ PerfIdle

InitClassify ==
    /\ MainIdle
    /\ ret = <<>>
    /\ \/ fn = "classify_disk" /\ args \in DiskArgs
       \/ fn = "classify_resource" /\ args \in ResourceArgs
       \/ fn = "classify_perf" /\ args \in PerfArgs
       \/ fn = "read_perf_summary" /\ args \in PerfRowArgs
       \/ fn = "classify_job" /\ args \in JobArgs
       \/ fn = "normalize_counter_path" /\ args \in NormalizeArgs

Call_classify_disk ==
    /\ fn = "classify_disk" /\ ret = <<>>
    /\ ret' = <<classify_disk(args.d, args.t)>>
    /\ UNCHANGED <<fn, args>>
    /\ UNCHANGED mainvars

Call_classify_resource ==
    /\ fn = "classify_resource" /\ ret = <<>>
    /\ ret' = <<classify_resource(args.r, args.t)>>
    /\ UNCHANGED <<fn, args>>
    /\ UNCHANGED mainvars

Call_classify_perf ==
    /\ fn = "classify_perf" /\ ret = <<>>
    /\ ret' = <<classify_perf(args.norm, args.avg, args.maxv)>>
    /\ UNCHANGED <<fn, args>>
    /\ UNCHANGED mainvars

\* one row of read_perf_summary
Call_read_perf_summary ==
    /\ fn = "read_perf_summary" /\ ret = <<>>
    /\ ret' = <<perf_row(args.r)>>
    /\ UNCHANGED <<fn, args>>
    /\ UNCHANGED mainvars

\* classify_job(Job.from_row(r), now, t), as load_jobs and main call it
Call_classify_job ==
    /\ fn = "classify_job" /\ ret = <<>>
    /\ ret' = <<classify_job(from_row(args.r), args.now, args.t)>>
    /\ UNCHANGED <<fn, args>>
    /\ UNCHANGED mainvars

\* two rows of perf_summary.csv with the same Avg and Max, as the loop of
\* read_perf_summary normalizes, classifies and names them
Call_normalize_counter_path ==
    /\ fn = "normalize_counter_path" /\ ret = <<>>
    /\ LET Row(raw) == [Counter |-> Some(raw), Avg |-> CellNumber(args.avg),
                        Max |-> CellNumber(args.maxv), Samples |-> CellNumber(12)]
       IN ret' = <<[a |-> perf_row(Row(args.a)), b |-> perf_row(Row(args.b))]>>
    /\ UNCHANGED <<fn, args>>
    /\ UNCHANGED mainvars

NextClassify ==
    \/ Call_classify_disk
    \/ Call_classify_resource
    \/ Call_classify_perf
    \/ Call_read_perf_summary
    \/ Call_classify_job
    \/ Call_normalize_counter_path

SpecClassify == InitClassify /\ [][NextClassify]_vars

----------------------------------------------------------------------------
(* Endpoint-health-checker: main *)

(* A JSON document as read_json returns it: null, one object, or a list.     *)
(* v holds the object of an "object" document, the items of a "list".        *)
JNull == [kind |-> "null", v |-> <<>>]

JObject(o) == [kind |-> "object", v |-> <<o>>]

JList(l) == [kind |-> "list", v |-> l]

ensure_list(x) ==
    IF x.kind = "null" THEN <<>>
    ELSE IF x.kind = "list" THEN x.v
    ELSE <<x.v[1]>>

Finding(status, category, message) ==
    [status |-> status, category |-> category, message |-> message]

\* list.append
\* the append of a finding without its condition
AppendAlways(list, cond, x) == Append(list, x)

Append1(list, cond, x) == IF cond THEN Append(list, x) ELSE list

\* order.get(x["status"], 9)
SortKey(f) ==
    CASE f.status = "ALERT" -> 0
      [] f.status = "WARN" -> 1
      [] f.status = "OK" -> 2
      [] OTHER -> 9

\* insertion of x into a list sorted by key, before every element of equal key
RECURSIVE InsertFirst(_, _)
InsertFirst(x, sorted) ==
    IF sorted = <<>> THEN <<x>>
    ELSE IF SortKey(Head(sorted)) < SortKey(x)
        THEN <<Head(sorted)>> \o InsertFirst(x, Tail(sorted))
        ELSE <<x>> \o sorted

\* insertion of x into a list sorted by key, after every element of equal key
RECURSIVE Insert(_, _)
Insert(x, sorted) ==
    IF sorted = <<>> THEN <<x>>
    ELSE IF SortKey(Head(sorted)) <= SortKey(x)
        THEN <<Head(sorted)>> \o Insert(x, Tail(sorted))
        ELSE <<x>> \o sorted

\* list.sort(key=...): a stable sort, here by insertion from left to right
RECURSIVE SortFrom(_, _)
SortFrom(list, sorted) ==
    IF list = <<>> THEN sorted ELSE SortFrom(Tail(list), Insert(Head(list), sorted))

\* an unstable sort: findings of equal key end in reverse order
RECURSIVE SortFromFirst(_, _)
SortFromFirst(list, sorted) ==
    IF list = <<>> THEN sorted
    ELSE SortFromFirst(Tail(list), InsertFirst(Head(list), sorted))

sort_findings_unstable(list) == SortFromFirst(list, <<>>)

sort_findings(list) == SortFrom(list, <<>>)

\* the name main compares with the allow-list: (s.get("Name") or "").strip()
ServiceName(s) == Strip(TextOrEmpty(s.Name))

\* set(x.lower() for x in t.get("service_allowlist", []))
AllowSet(th) == LowerSet(Get(th.service_allowlist, <<>>))

\* the services loop of main matching the name case-sensitively
filter_services_case_sensitive(svcs, th) ==
    LET Keep(s) == ~(ServiceName(s) \in AllowSet(th)) IN SelectSeq(svcs, Keep)

\* the services loop of main: the services that are not allow-listed
filter_services(svcs, th) ==
    LET Keep(s) == ~(Lower(ServiceName(s)) \in AllowSet(th)) IN SelectSeq(svcs, Keep)

report_obj ==
    [thresholds |-> thresholds,
     system_info |-> files.system_info,
     disk |-> disks,
     resource |-> resource,
     auto_services_stopped |-> auto_stopped,
     reboot |-> reboot,
     defender |-> defender,
     findings |-> findings]

badge(status) ==
    [cls |-> CASE status = "OK" -> "ok" [] status = "WARN" -> "warn"
               [] status = "ALERT" -> "bad" [] OTHER -> "ok",
     text |-> status]

CountStatus(list, status) == Cardinality({k \in DOMAIN list : list[k].status = status})

(* build_html: the document is represented by the rows of its tables, each   *)
(* cell by the value esc() is applied to; sysinfo.get raises AttributeError  *)
(* unless system_info.json holds an object.                                  *)
build_html(data) ==
    IF data.system_info.kind # "object" THEN [raised |-> TRUE]
    ELSE
    [raised |-> FALSE,
     summary |-> <<data.system_info.v[1].Hostname,
                   CountStatus(data.findings, "ALERT"),
                   CountStatus(data.findings, "WARN")>>,
     findings_rows |-> [k \in DOMAIN data.findings |->
                          <<badge(data.findings[k].status), data.findings[k].category,
                            data.findings[k].message>>],
     disks_rows |-> [k \in DOMAIN data.disk |->
                       <<data.disk[k].Drive, data.disk[k].FreePercent,
                         data.disk[k].status_, data.disk[k].note_>>],
     services_rows |-> [k \in DOMAIN data.auto_services_stopped |->
                          <<data.auto_services_stopped[k].Name>>],
     reboot_line |-> IF data.reboot.Pending = Some(TRUE)
                        THEN "Pending reboot: YES" ELSE "Pending reboot: No",
     defender_row |-> <<data.defender.Available, data.defender.RealTimeProtectionEnabled>>]

(* Inputs of main.  A disk record's "_status" and "_note" keys are the       *)
(* fields status_ and note_, None while the key is absent.                   *)
DiskRecord(drive, pct) ==
    [Drive |-> drive, FreePercent |-> pct, status_ |-> None, note_ |-> None]

DiskKinds == {DiskRecord(Some(<<"C:">>), Some(3)),
              DiskRecord(Some(<<"D:">>), Some(50)),
              DiskRecord(None, None)}

ListsUpTo(S, n) == UNION {[1..k -> S] : k \in 0..n}

DiskDocs == {JNull} \cup {JObject(d) : d \in DiskKinds}
            \cup {JList(l) : l \in ListsUpTo(DiskKinds, MaxDisks)}

ServiceKinds == {[Name |-> Some(<<"Spooler">>)],
                 [Name |-> Some(<<SP, "spooler", SP>>)],
                 [Name |-> Some(<<"BITS">>)]}

ServiceDocs == {JNull} \cup {JObject(x) : x \in ServiceKinds}
               \cup {JList(l) : l \in ListsUpTo(ServiceKinds, MaxServices)}

ResourceDocs == {[CpuLoadPercent |-> None, MemoryUsedPercent |-> Some(50)],
                 [CpuLoadPercent |-> Some(90), MemoryUsedPercent |-> Some(75)]}

AllowLists == {None, Some(<<<<"SPOOLER">>>>), Some(<<<<SP, "spooler">>, <<"WSearch">>>>)}

EndpointThresholds ==
    {[disk_free_warn_pct |-> 10, disk_free_alert_pct |-> 5,
      cpu_warn_pct |-> 70, cpu_alert_pct |-> 85,
      mem_used_warn_pct |-> 70, mem_used_alert_pct |-> 85,
      service_allowlist |-> a] : a \in AllowLists}

\* reboot.json and defender.json, drawn together
RebootDefenderDocs ==
    {<<[Pending |-> Some(TRUE)],
       [Available |-> Some(TRUE), RealTimeProtectionEnabled |-> Some(TRUE)]>>,
     <<[Pending |-> None],
       [Available |-> Some(TRUE), RealTimeProtectionEnabled |-> Some(FALSE)]>>}

\* the documents of a run, system_info.json drawn from sys and services.json
\* from svc
EndpointFilesOf(sys, svc) ==
    {[thresholds |-> th,
      system_info |-> si,
      disk |-> dd,
      resource |-> rs,
      services |-> sv,
      reboot |-> rd[1],
      defender |-> rd[2]] :
        th \in EndpointThresholds, si \in sys, dd \in DiskDocs, rs \in ResourceDocs,
        sv \in svc, rd \in RebootDefenderDocs}

SysinfoObject == JObject([Hostname |-> Some(<<"PC1">>)])

EndpointFiles == EndpointFilesOf({SysinfoObject}, ServiceDocs)

\* no classification call is under evaluation while main runs
CallIdle == fn = "main" /\ args = <<>> /\ ret = <<>>

InitEndpoint ==
    /\ CallIdle
    /\ pc = "read"
    /\ files \in EndpointFiles
    /\ thresholds = <<>> /\ disks = <<>> /\ resource = <<>> /\ services = <<>>
    /\ reboot = <<>> /\ defender = <<>>
    /\ findings = <<>> /\ auto_stopped = <<>> /\ disk_idx = 0
    /\ outdir = [report_json |-> None, report_html |-> None]
    /\ BackupIdle /\ PerfIdle

\* lines 219-229: read the documents
ReadInputs ==
    /\ pc = "read"
    /\ thresholds' = files.thresholds
    /\ disks' = ensure_list(files.disk)
    /\ resource' = files.resource
    /\ services' = ensure_list(files.services)
    /\ reboot' = files.reboot
    /\ defender' = files.defender
    /\ findings' = <<>>
    /\ disk_idx' = 1
    /\ pc' = "disks"
    /\ UNCHANGED <<files, auto_stopped, outdir>>
    /\ UNCHANGED <<callvars, backupvars, perfvars>>

\* the annotation of a disk record that also stores the Drive it defaulted
annotate_set_drive(d, c) ==
    [d EXCEPT !.status_ = Some(c[1]), !.note_ = Some(c[2]),
              !.Drive = Some(TextOrEmpty(d.Drive))]

\* lines 234-235: d["_status"] = status; d["_note"] = note
annotate(d, c) == [d EXCEPT !.status_ = Some(c[1]), !.note_ = Some(c[2])]

\* lines 232-243: one iteration of the disk loop
DiskFinding ==
    /\ pc = "disks" /\ disk_idx <= Len(disks)
    /\ LET d == disks[disk_idx]
           c == classify_disk(d, thresholds)
       IN /\ disks' = [disks EXCEPT ![disk_idx] = annotate(d, c)]
          /\ findings' = Append1(findings, c[1] # "OK",
                                 Finding(c[1], Msg("Disk {Drive}", <<TextOrEmpty(d.Drive)>>),
                                         c[2]))
    /\ disk_idx' = disk_idx + 1
    /\ UNCHANGED <<pc, files, thresholds, resource, services, reboot, defender, auto_stopped, outdir>>
    /\ UNCHANGED <<callvars, backupvars, perfvars>>

\* lines 246-248: CPU / memory findings, once the disk loop has ended
ResourceFindings ==
    /\ pc = "disks" /\ disk_idx > Len(disks)
    /\ LET r == classify_resource(resource, thresholds)
           f1 == Append1(findings, r[1][1] # "OK",
                         Finding(r[1][1], Msg(r[1][2], <<>>), r[1][3]))
       IN findings' = Append1(f1, r[2][1] # "OK",
                              Finding(r[2][1], Msg(r[2][2], <<>>), r[2][3]))
    /\ pc' = "services"
    /\ UNCHANGED <<files, thresholds, disks, resource, services, reboot, defender,
                   auto_stopped, disk_idx, outdir>>
    /\ UNCHANGED <<callvars, backupvars, perfvars>>

\* lines 251-266: services not allow-listed, and their finding
ServicesFindings ==
    /\ pc = "services"
    /\ auto_stopped' = filter_services(services, thresholds)
    /\ findings' = Append1(findings, auto_stopped' # <<>>,
                           Finding("WARN", Msg("Services", <<>>),
                                   Msg("{len(auto_stopped)} Automatic service(s) not running",
                                       <<Len(auto_stopped')>>)))
    /\ pc' = "reboot"
    /\ UNCHANGED <<files, thresholds, disks, resource, services, reboot, defender, disk_idx, outdir>>
    /\ UNCHANGED <<callvars, backupvars, perfvars>>

\* lines 269-276: pending reboot
RebootFinding ==
    /\ pc = "reboot"
    /\ findings' = Append1(findings, reboot.Pending = Some(TRUE),
                           Finding("WARN", Msg("Reboot", <<>>),
                                   Msg("Pending reboot detected", <<>>)))
    /\ pc' = "defender"
    /\ UNCHANGED <<files, thresholds, disks, resource, services, reboot, defender,
                   auto_stopped, disk_idx, outdir>>
    /\ UNCHANGED <<callvars, backupvars, perfvars>>

\* lines 279-289: Defender real-time protection
DefenderFinding ==
    /\ pc = "defender"
    /\ findings' = Append1(findings,
                           /\ defender.Available = Some(TRUE)
                           /\ defender.RealTimeProtectionEnabled = Some(FALSE),
                           Finding("WARN", Msg("Defender", <<>>),
                                   Msg("Real-time protection is disabled", <<>>)))
    /\ pc' = "sort"
    /\ UNCHANGED <<files, thresholds, disks, resource, services, reboot, defender,
                   auto_stopped, disk_idx, outdir>>
    /\ UNCHANGED <<callvars, backupvars, perfvars>>

\* lines 292-293: findings.sort(key=...)
SortFindings ==
    /\ pc = "sort"
    /\ findings' = sort_findings(findings)
    /\ pc' = "write_json"
    /\ UNCHANGED <<files, thresholds, disks, resource, services, reboot, defender,
                   auto_stopped, disk_idx, outdir>>
    /\ UNCHANGED <<callvars, backupvars, perfvars>>

\* lines 295-309: report.json
WriteJson ==
    /\ pc = "write_json"
    /\ outdir' = [outdir EXCEPT !.report_json = Some(report_obj)]
    /\ pc' = "write_html"
    /\ UNCHANGED <<files, thresholds, disks, resource, services, reboot, defender,
                   findings, auto_stopped, disk_idx>>
    /\ UNCHANGED <<callvars, backupvars, perfvars>>

\* line 310: build_html(report_obj), then report.html; build_html raising
\* ends the run
WriteHtml ==
    /\ pc = "write_html"
    /\ LET doc == build_html(report_obj)
       IN IF doc.raised
            THEN pc' = "raised" /\ UNCHANGED outdir
            ELSE /\ outdir' = [outdir EXCEPT !.report_html = Some(doc)]
                 /\ pc' = "done"
    /\ UNCHANGED <<files, thresholds, disks, resource, services, reboot, defender,
                   findings, auto_stopped, disk_idx>>
    /\ UNCHANGED <<callvars, backupvars, perfvars>>

NextEndpoint ==
    \/ ReadInputs
    \/ DiskFinding
    \/ ResourceFindings
    \/ ServicesFindings
    \/ RebootFinding
    \/ DefenderFinding
    \/ SortFindings
    \/ WriteJson
    \/ WriteHtml

SpecEndpoint == InitEndpoint /\ [][NextEndpoint]_vars

----------------------------------------------------------------------------
(* backup-verifier: main *)

\* f"{d:.2f}" of d seconds expressed in days, in hundredths (round to nearest)
F2Days(d) == (200 * d + SecondsPerDay) \div (2 * SecondsPerDay)

\* f"{job.duration_minutes:.1f}", in tenths
F1Minutes(m) == m * 10

(* The dict main appends for one job.  A formatted cell is None for the      *)
(* empty text; isoformat(timespec="seconds") keeps the instant, in seconds.  *)
result_row(job, c, d) ==
    [job_name |-> job.job_name,
     last_result |-> job.last_result,
     last_run |-> job.last_run,
     last_success |-> job.last_success,
     days_since_success |-> IF IsNone(d) THEN None ELSE Some(F2Days(d[1])),
     duration_minutes |-> IF IsNone(job.duration_minutes) THEN None
                            ELSE Some(F1Minutes(job.duration_minutes[1])),
     status |-> c[1],
     reason |-> c[2],
     notes |-> job.notes]

\* order.get(r["status"], 9)
OrderOf(status) ==
    CASE status = "ALERT" -> 0 [] status = "WARN" -> 1 [] status = "OK" -> 2 [] OTHER -> 9

\* a sort key that ignores the days since success
sort_key_status_only(r) == <<OrderOf(r.status), 0>>

\* sort_key: (order of the status, -d), d being the float of the formatted
\* days_since_success, 0.0 when the text is empty
sort_key(r) ==
    LET d == IF IsNone(r.days_since_success) THEN 0 ELSE r.days_since_success[1]
    IN <<OrderOf(r.status), 0 - d>>

\* comparison of two key tuples: a <= b
TupleLE(a, b) == a[1] < b[1] \/ (a[1] = b[1] /\ a[2] <= b[2])

\* insertion of x into a list sorted by sort_key, after every element of equal key
RECURSIVE InsertResult(_, _)
InsertResult(x, sorted) ==
    IF sorted = <<>> THEN <<x>>
    ELSE IF TupleLE(sort_key(Head(sorted)), sort_key(x))
        THEN <<Head(sorted)>> \o InsertResult(x, Tail(sorted))
        ELSE <<x>> \o sorted

RECURSIVE SortResultsFrom(_, _)
SortResultsFrom(list, sorted) ==
    IF list = <<>> THEN sorted
    ELSE SortResultsFrom(Tail(list), InsertResult(Head(list), sorted))

\* results.sort(key=sort_key): a stable sort
sort_results(list) == SortResultsFrom(list, <<>>)

(* build_html of the backup report: the document is represented by the rows  *)
(* of its tables, each cell by the value esc() is applied to.                *)
backup_build_html(at, joblist, t, rows) ==
    LET Cells(r) == <<r.job_name, r.last_result, r.last_success, r.days_since_success,
                      r.reason>>
        IsAlert(r) == r.status = "ALERT"
        IsWarn(r) == r.status = "WARN"
        alerts == SelectSeq(rows, IsAlert)
        warns == SelectSeq(rows, IsWarn)
    IN [generated |-> at,
        stale_threshold |-> Get(t.stale_days, 3),
        summary |-> <<Len(rows), CountStatus(rows, "OK"), CountStatus(rows, "WARN"),
                      CountStatus(rows, "ALERT"), Get(t.stale_days, 3)>>,
        alert_rows |-> [k \in DOMAIN alerts |-> Cells(alerts[k])],
        warn_rows |-> [k \in DOMAIN warns |-> Cells(warns[k])],
        all_rows |-> [k \in DOMAIN rows |->
                        <<badge(rows[k].status), rows[k].job_name, rows[k].last_result,
                          rows[k].last_run, rows[k].last_success,
                          rows[k].days_since_success, rows[k].duration_minutes,
                          rows[k].reason>>]]

\* the document main writes to report.json
backup_report_json ==
    [generated_at |-> NowT, thresholds |-> thresholds, results |-> results]

(* Inputs of the backup main: rows of the jobs CSV.                          *)
JobRow(name, res, ls) ==
    [job_name |-> Some(name), last_run |-> Some(TsIso(NowT, FALSE)),
     last_result |-> Some(res), last_success |-> ls,
     duration_minutes |-> Some(CellNumber(5)), notes |-> None]

JobRowKinds ==
    {JobRow(<<"nightly">>, <<"Success">>, Some(TsIso(NowT, FALSE))),
     JobRow(<<"db">>, <<"Success">>, Some(TsIso(NowT - SecondsPerDay - 60, FALSE))),
     JobRow(<<"files">>, <<"Success">>, Some(TsIso(NowT - SecondsPerDay - 120, FALSE))),
     JobRow(<<"mail">>, <<"Warning">>, Some(TsIso(NowT - 2 * SecondsPerDay, FALSE))),
     JobRow(<<"vm">>, <<"Failed">>, Some(TsIso(NowT - 4 * SecondsPerDay, FALSE))),
     JobRow(<<"web">>, <<"Success">>, Some(TsEmpty)),
     JobRow(<<"tz">>, <<"Success">>, Some(TsIso(NowT - SecondsPerDay, TRUE))),
     JobRow(<<SP>>, <<"Success">>, Some(TsIso(NowT, FALSE)))}

BackupThresholds ==
    {[allowed_success_values |-> None, allowed_warning_values |-> None,
      allowed_fail_values |-> None, fail_on_warning_result |-> None,
      warning_days |-> wd, stale_days |-> sd] :
        wd \in {None}, sd \in {None, Some(2)}}

BackupFiles ==
    {[thresholds |-> t, jobs_csv |-> rows] :
        t \in BackupThresholds, rows \in ListsUpTo(JobRowKinds, MaxJobs)}

\* the endpoint main is not running
EndpointIdle ==
    /\ disks = <<>> /\ resource = <<>> /\ services = <<>> /\ reboot = <<>>
    /\ defender = <<>> /\ findings = <<>> /\ auto_stopped = <<>> /\ disk_idx = 0

InitBackup ==
    /\ CallIdle
    /\ pc = "load_jobs"
    /\ files \in BackupFiles
    /\ thresholds = <<>>
    /\ jobs = <<>> /\ results = <<>> /\ job_idx = 0 /\ html_out = <<>>
    /\ outdir = [report_json |-> None, report_html |-> None]
    /\ EndpointIdle /\ PerfIdle

\* lines 283-287: thresholds, jobs, the empty results
LoadJobs ==
    /\ pc = "load_jobs"
    /\ thresholds' = files.thresholds
    /\ jobs' = [k \in DOMAIN files.jobs_csv |-> from_row(files.jobs_csv[k])]
    /\ results' = <<>>
    /\ job_idx' = 1
    /\ pc' = "jobs"
    /\ UNCHANGED <<files, outdir, html_out>>
    /\ UNCHANGED <<callvars, endpointvars, perfvars>>

\* lines 289-310: one iteration of the job loop; classify_job or days_since
\* raising TypeError ends the run
JobResult ==
    /\ pc = "jobs" /\ job_idx <= Len(jobs)
    /\ LET job == jobs[job_idx]
           c == classify_job(job, NowT, thresholds)
           d == days_since(job.last_success, NowT)
       IN IF c[1] = "TypeError" \/ d.raised
            THEN pc' = "raised" /\ UNCHANGED <<results, job_idx>>
            ELSE /\ results' = Append(results, result_row(job, c, d.d))
                 /\ job_idx' = job_idx + 1
                 /\ UNCHANGED pc
    /\ UNCHANGED <<files, thresholds, jobs, outdir, html_out>>
    /\ UNCHANGED <<callvars, endpointvars, perfvars>>

\* lines 312-323: results.sort(key=sort_key), once the job loop has ended
SortResults ==
    /\ pc = "jobs" /\ job_idx > Len(jobs)
    /\ results' = sort_results(results)
    /\ pc' = "build_html"
    /\ UNCHANGED <<files, thresholds, jobs, job_idx, outdir, html_out>>
    /\ UNCHANGED <<callvars, endpointvars, perfvars>>

\* line 325: html_out = build_html(now, jobs, t, results)
BuildBackupHtml ==
    /\ pc = "build_html"
    /\ html_out' = Some(backup_build_html(NowT, jobs, thresholds, results))
    /\ pc' = "write_backup_html"
    /\ UNCHANGED <<files, thresholds, jobs, results, job_idx, outdir>>
    /\ UNCHANGED <<callvars, endpointvars, perfvars>>

\* line 326: report.html
WriteBackupHtml ==
    /\ pc = "write_backup_html"
    /\ outdir' = [outdir EXCEPT !.report_html = html_out]
    /\ pc' = "write_backup_json"
    /\ UNCHANGED <<files, thresholds, jobs, results, job_idx, html_out>>
    /\ UNCHANGED <<callvars, endpointvars, perfvars>>

\* lines 327-337: report.json
WriteBackupJson ==
    /\ pc = "write_backup_json"
    /\ outdir' = [outdir EXCEPT !.report_json = Some(backup_report_json)]
    /\ pc' = "done"
    /\ UNCHANGED <<files, thresholds, jobs, results, job_idx, html_out>>
    /\ UNCHANGED <<callvars, endpointvars, perfvars>>

NextBackup ==
    \/ LoadJobs
    \/ JobResult
    \/ SortResults
    \/ BuildBackupHtml
    \/ WriteBackupHtml
    \/ WriteBackupJson

SpecBackup == InitBackup /\ [][NextBackup]_vars

----------------------------------------------------------------------------
(* log-parser: main *)

\* read_perf_summary leaving out the rows whose Counter is empty
read_perf_summary_skip_empty(rows) ==
    LET Named(r) == TextOrEmpty(r.Counter) # <<>>
        kept == SelectSeq(rows, Named)
    IN IF \E k \in DOMAIN kept : perf_row(kept[k]).raised
        THEN [raised |-> TRUE, rows |-> <<>>]
        ELSE [raised |-> FALSE, rows |-> [k \in DOMAIN kept |-> perf_row(kept[k])]]

\* read_perf_summary: perf_row of every row of the CSV, in order; a cell that
\* float() cannot parse raises ValueError
read_perf_summary(rows) ==
    IF \E k \in DOMAIN rows : perf_row(rows[k]).raised
        THEN [raised |-> TRUE, rows |-> <<>>]
        ELSE [raised |-> FALSE, rows |-> [k \in DOMAIN rows |-> perf_row(rows[k])]]

\* read_events_csv: the rows of the file, [] when the file does not exist
read_events_csv(file) == IF IsNone(file) THEN <<>> ELSE file[1]

\* (e.get("LevelDisplayName") or "").strip() or "Unknown"
LevelOf(e) ==
    LET lvl == Strip(TextOrEmpty(e.LevelDisplayName))
    IN IF lvl = <<>> THEN <<"Unknown">> ELSE lvl

\* count_by_level: a dict from each level that occurs to its number of events
count_by_level(events) ==
    [lvl \in {LevelOf(events[k]) : k \in DOMAIN events} |->
        Cardinality({k \in DOMAIN events : LevelOf(events[k]) = lvl})]

(* The key of newest_events: the text of TimeCreated.  A timestamp's text is *)
(* represented by its instant (timestamps of one format order as their       *)
(* instants do); the empty text orders before every timestamp.               *)
TimeKey(e) == IF IsNone(e.TimeCreated) THEN 0 - 1 ELSE e.TimeCreated[1]

\* insertion of x into a list sorted by descending key, after every element
\* of equal key
RECURSIVE InsertNewest(_, _)
InsertNewest(x, sorted) ==
    IF sorted = <<>> THEN <<x>>
    ELSE IF TimeKey(Head(sorted)) >= TimeKey(x)
        THEN <<Head(sorted)>> \o InsertNewest(x, Tail(sorted))
        ELSE <<x>> \o sorted

RECURSIVE SortNewestFrom(_, _)
SortNewestFrom(list, sorted) ==
    IF list = <<>> THEN sorted
    ELSE SortNewestFrom(Tail(list), InsertNewest(Head(list), sorted))

\* the default limit of newest_events, which build_html passes too
NewestLimit == 20

\* newest_events: sorted(events, key=key, reverse=True)[:limit]
newest_events(events, limit) ==
    LET sorted == SortNewestFrom(events, <<>>)
    IN SubSeq(sorted, 1, IF Len(sorted) < limit THEN Len(sorted) ELSE limit)

\* the number of characters of Message that event_rows shows
MessageLimit == 200

\* a message cell of event_rows: the first MessageLimit characters, and "..."
\* when the message is longer
MessageCell(m) ==
    IF IsNone(m) THEN [text |-> <<>>, shown |-> 0, ellipsis |-> FALSE]
    ELSE IF m[1].len > MessageLimit
        THEN [text |-> m[1].text, shown |-> MessageLimit, ellipsis |-> TRUE]
        ELSE [text |-> m[1].text, shown |-> m[1].len, ellipsis |-> FALSE]

\* event_rows of build_html
event_rows(events) ==
    [k \in DOMAIN events |->
        [TimeCreated |-> events[k].TimeCreated,
         LevelDisplayName |-> TextOrEmpty(events[k].LevelDisplayName),
         ProviderName |-> TextOrEmpty(events[k].ProviderName),
         EventID |-> events[k].EventID,
         Message |-> MessageCell(events[k].Message)]]

\* f"{x:.3f}", in thousandths
F3(x) == x * 1000

\* counts.get(level, 0)
CountOf(counts, lvl) == IF lvl \in DOMAIN counts THEN counts[lvl] ELSE 0

RECURSIVE SumOver(_, _)
SumOver(counts, lvls) ==
    IF lvls = {} THEN 0
    ELSE LET l == CHOOSE x \in lvls : TRUE
         IN counts[l] + SumOver(counts, lvls \ {l})

NamedLevels == {<<"Critical">>, <<"Error">>, <<"Warning">>, <<"Information">>}

\* one row of the event summary table
summary_row(log, events) ==
    LET counts == count_by_level(events)
    IN [log |-> log,
        Critical |-> CountOf(counts, <<"Critical">>),
        Error |-> CountOf(counts, <<"Error">>),
        Warning |-> CountOf(counts, <<"Warning">>),
        Information |-> CountOf(counts, <<"Information">>),
        Other |-> SumOver(counts, DOMAIN counts \ NamedLevels),
        Total |-> Len(events)]

\* sysinfo.get(key) or "Unknown"
OrUnknown(cell) == IF IsNone(cell) \/ cell[1] = <<>> THEN <<"Unknown">> ELSE cell[1]

(* build_html of the log report: the document is represented by the rows of  *)
(* its tables; sysinfo.get raises AttributeError unless system_info.json     *)
(* holds an object.                                                          *)
perf_build_html(si, pf, se, ae, window_minutes) ==
    LET IsAlert(r) == r.status \in {"WARN", "ALERT"}
        alerts == SelectSeq(pf, IsAlert)
        Noisy(e) == TextOrEmpty(e.LevelDisplayName)
                        \in {<<"Critical">>, <<"Error">>, <<"Warning">>}
    IN IF si.kind # "object" THEN [raised |-> TRUE]
       ELSE [raised |-> FALSE,
             host |-> OrUnknown(si.v[1].Hostname),
             window |-> window_minutes,
             alerts |-> [k \in DOMAIN alerts |->
                           <<badge(alerts[k].status), alerts[k].counter_name,
                             alerts[k].reason>>],
             perf_rows |-> [k \in DOMAIN pf |->
                              [counter_name |-> pf[k].counter_name,
                               avg |-> F3(pf[k].avg),
                               max |-> F3(pf[k].max),
                               samples |-> pf[k].samples,
                               status |-> pf[k].status,
                               reason |-> pf[k].reason]],
             events_summary |-> <<summary_row("System", se),
                                  summary_row("Application", ae)>>,
             newest_sys |-> event_rows(newest_events(SelectSeq(se, Noisy), NewestLimit)),
             newest_app |-> event_rows(newest_events(SelectSeq(ae, Noisy), NewestLimit))]

\* --minutes, by default
WindowMinutes == 60

\* the document main writes to report.json
perf_report_json ==
    [generated_at |-> NowT,
     window_minutes |-> WindowMinutes,
     system_info |-> sysinfo,
     perf |-> perf,
     event_counts |-> [system |-> count_by_level(sys_events),
                       application |-> count_by_level(app_events)]]

(* Inputs of the log-parser main.                                            *)
PerfCsvRow(counter, avg, maxv) ==
    [Counter |-> counter, Avg |-> avg, Max |-> maxv, Samples |-> CellNumber(12)]

PerfCsvRowKinds ==
    {PerfCsvRow(Some(<<BS, BS, "HOST", BS, "Processor(_Total)", BS, "% Processor Time">>),
                CellNumber(90), CellNumber(95)),
     PerfCsvRow(Some(<<SP, BS, BS, "host", BS, "Memory", BS, "Available MBytes", SP>>),
                CellNumber(2000), CellNumber(3000)),
     PerfCsvRow(Some(<<>>), CellNumber(1), CellNumber(1)),
     PerfCsvRow(Some(<<BS, "memory", BS, "% committed bytes in use">>),
                CellText, CellNumber(50))}

EventRow(at, lvl, len) ==
    [TimeCreated |-> Some(at), LevelDisplayName |-> lvl,
     ProviderName |-> Some(<<"Service Control Manager">>), EventID |-> Some(7000 + len),
     Message |-> Some([text |-> <<"The service failed to start">>, len |-> len])]

EventKinds == {EventRow(100, Some(<<"Error">>), 27),
               EventRow(200, Some(<<"Warning">>), 300),
               EventRow(300, None, 27)}

\* system_info.json and events_application.csv, drawn together: None is a
\* file that does not exist
SysinfoAppDocs ==
    {<<Some(JObject([Hostname |-> Some(<<"PC1">>)])), None>>,
     <<Some(JObject([Hostname |-> None])), Some(<<EventRow(100, Some(<<"Error">>), 27)>>)>>,
     <<Some(JNull), None>>,
     <<None, None>>}

PerfFiles ==
    {[system_info |-> sa[1],
      perf_summary |-> pf,
      events_system |-> se,
      events_application |-> sa[2]] :
        sa \in SysinfoAppDocs,
        pf \in Opt(ListsUpTo(PerfCsvRowKinds, MaxRows)),
        se \in Opt(ListsUpTo(EventKinds, MaxEvents))}

InitPerf ==
    /\ CallIdle
    /\ pc = "check_files"
    /\ files \in PerfFiles
    /\ thresholds = <<>>
    /\ PerfIdle
    /\ outdir = [report_json |-> None, report_html |-> None]
    /\ EndpointIdle /\ BackupIdle

\* lines 286-289: system_info.json and perf_summary.csv must exist
CheckFiles ==
    /\ pc = "check_files"
    /\ pc' = IF IsNone(files.system_info) \/ IsNone(files.perf_summary)
                THEN "raised" ELSE "read_perf"
    /\ UNCHANGED <<files, thresholds, outdir>>
    /\ UNCHANGED <<callvars, endpointvars, backupvars, perfvars>>

\* lines 291-294: read the four documents
ReadPerfInputs ==
    /\ pc = "read_perf"
    /\ LET p == read_perf_summary(files.perf_summary[1])
       IN IF p.raised
            THEN /\ sysinfo' = files.system_info[1]
                 /\ pc' = "raised"
                 /\ UNCHANGED <<perf, sys_events, app_events>>
            ELSE /\ sysinfo' = files.system_info[1]
                 /\ perf' = p.rows
                 /\ sys_events' = read_events_csv(files.events_system)
                 /\ app_events' = read_events_csv(files.events_application)
                 /\ pc' = "perf_build_html"
    /\ UNCHANGED <<files, thresholds, outdir, report_html>>
    /\ UNCHANGED <<callvars, endpointvars, backupvars>>

\* line 296: report_html = build_html(...)
BuildPerfHtml ==
    /\ pc = "perf_build_html"
    /\ LET doc == perf_build_html(sysinfo, perf, sys_events, app_events, WindowMinutes)
       IN IF doc.raised
            THEN pc' = "raised" /\ UNCHANGED report_html
            ELSE pc' = "write_perf_html" /\ report_html' = Some(doc)
    /\ UNCHANGED <<files, thresholds, outdir, sysinfo, perf, sys_events, app_events>>
    /\ UNCHANGED <<callvars, endpointvars, backupvars>>

\* lines 298-299: report.html
WritePerfHtml ==
    /\ pc = "write_perf_html"
    /\ outdir' = [outdir EXCEPT !.report_html = report_html]
    /\ pc' = "write_perf_json"
    /\ UNCHANGED <<files, thresholds>>
    /\ UNCHANGED <<callvars, endpointvars, backupvars, perfvars>>

\* lines 301-312: report.json
WritePerfJson ==
    /\ pc = "write_perf_json"
    /\ outdir' = [outdir EXCEPT !.report_json = Some(perf_report_json)]
    /\ pc' = "done"
    /\ UNCHANGED <<files, thresholds>>
    /\ UNCHANGED <<callvars, endpointvars, backupvars, perfvars>>

NextPerf ==
    \/ CheckFiles
    \/ ReadPerfInputs
    \/ BuildPerfHtml
    \/ WritePerfHtml
    \/ WritePerfJson

SpecPerf == InitPerf /\ [][NextPerf]_vars

----------------------------------------------------------------------------
(* The three programs, each run on its own output folder *)

\* the endpoint documents of the runs compared across programs: system_info.json
\* holds an object or null, services.json null or two services
EndpointReportFiles ==
    EndpointFilesOf({SysinfoObject, JNull},
                    {JNull, JList(<<[Name |-> Some(<<"Spooler">>)],
                                    [Name |-> Some(<<"BITS">>)]>>)})

InitEndpointReport ==
    /\ CallIdle
    /\ pc = "read"
    /\ files \in EndpointReportFiles
    /\ thresholds = <<>>
    /\ EndpointIdle
    /\ outdir = [report_json |-> None, report_html |-> None]
    /\ BackupIdle /\ PerfIdle

InitReports == InitEndpointReport \/ InitBackup \/ InitPerf

NextReports == NextEndpoint \/ NextBackup \/ NextPerf

SpecReports == InitReports /\ [][NextReports]_vars

\* the program of the run
IsEndpointRun == "disk" \in DOMAIN files

IsBackupRun == "jobs_csv" \in DOMAIN files

IsPerfRun == "perf_summary" \in DOMAIN files

----------------------------------------------------------------------------
(* Properties of the classification calls *)

Returned == ret # <<>>

\* the high-is-bad rule of one value against a warn and an alert boundary
HighRule(v, warn, alert) ==
    IF v >= alert THEN "ALERT" ELSE IF v >= warn THEN "WARN" ELSE "OK"

\* the low-is-bad rule: the mirror image of HighRule
LowRule(v, warn, alert) ==
    IF v <= alert THEN "ALERT" ELSE IF v <= warn THEN "WARN" ELSE "OK"

IsHighCounter(norm) ==
    ~IsNone(PerfThresholds(norm)) /\ "warn" \in DOMAIN PerfThresholds(norm)[1]

IsLowCounter(norm) ==
    ~IsNone(PerfThresholds(norm)) /\ "warn_low" \in DOMAIN PerfThresholds(norm)[1]

(* C1: every high-is-bad metric follows the rule "value >= alert boundary    *)
(* gives ALERT, otherwise value >= warn boundary gives WARN, otherwise OK",  *)
(* for every pair of boundaries, a misordered pair (warn > alert) included:  *)
(* the CPU and memory findings of classify_resource for a present value,     *)
(* and classify_perf on a non-inverse counter for its avg and max.           *)
C1_HighIsBad ==
    /\ (fn = "classify_resource" /\ Returned) =>
        /\ ~IsNone(args.r.CpuLoadPercent) =>
              ret[1][1][1] = HighRule(args.r.CpuLoadPercent[1],
                                      args.t.cpu_warn_pct, args.t.cpu_alert_pct)
        /\ ~IsNone(args.r.MemoryUsedPercent) =>
              ret[1][2][1] = HighRule(args.r.MemoryUsedPercent[1],
                                      args.t.mem_used_warn_pct, args.t.mem_used_alert_pct)
    /\ (fn = "classify_perf" /\ Returned /\ IsHighCounter(args.norm)) =>
        LET b == PerfThresholds(args.norm)[1] IN
        ret[1][1] = MoreSevere(HighRule(args.avg, b.warn, b.alert),
                               HighRule(args.maxv, b.warn, b.alert))

\* a misordered pair: the value is at or above alert and below warn, and is ALERT
C1_Witness ==
    /\ fn = "classify_resource" /\ Returned
    /\ ~IsNone(args.r.CpuLoadPercent)
    /\ args.t.cpu_warn_pct > args.t.cpu_alert_pct
    /\ args.r.CpuLoadPercent[1] >= args.t.cpu_alert_pct
    /\ args.r.CpuLoadPercent[1] < args.t.cpu_warn_pct
    /\ ret[1][1][1] = "ALERT"

(* C2: every low-is-bad metric follows the mirror image of the high-is-bad   *)
(* rule: a present value at or below the alert boundary gives ALERT,          *)
(* otherwise at or below the warn boundary gives WARN, otherwise OK; for the *)
(* disk FreePercent of classify_disk and the available-memory counter of     *)
(* classify_perf.                                                            *)
C2_LowIsBad ==
    /\ (fn = "classify_disk" /\ Returned /\ ~IsNone(args.d.FreePercent)) =>
        ret[1][1] = LowRule(args.d.FreePercent[1],
                            args.t.disk_free_warn_pct, args.t.disk_free_alert_pct)
    /\ (fn = "classify_perf" /\ Returned /\ IsLowCounter(args.norm)) =>
        LET b == PerfThresholds(args.norm)[1] IN
        ret[1][1] = MoreSevere(LowRule(args.avg, b.warn_low, b.alert_low),
                               LowRule(args.maxv, b.warn_low, b.alert_low))

(* C3: in classify_perf, for a counter with a threshold rule, the result is  *)
(* ALERT if avg or max crosses the alert boundary, else WARN if avg or max   *)
(* crosses the warn boundary, else OK; so it is never lower than what avg    *)
(* alone or max alone gives.                                                 *)
CrossesAlert(norm, v) ==
    LET b == PerfThresholds(norm)[1] IN
    IF IsLowCounter(norm) THEN v <= b.alert_low ELSE v >= b.alert

CrossesWarn(norm, v) ==
    LET b == PerfThresholds(norm)[1] IN
    IF IsLowCounter(norm) THEN v <= b.warn_low ELSE v >= b.warn

Alone(norm, v) ==
    IF CrossesAlert(norm, v) THEN "ALERT" ELSE IF CrossesWarn(norm, v) THEN "WARN" ELSE "OK"

C3_AvgOrMax ==
    (fn = "classify_perf" /\ Returned /\ ~IsNone(PerfThresholds(args.norm))) =>
        /\ ret[1][1] =
             IF CrossesAlert(args.norm, args.avg) \/ CrossesAlert(args.norm, args.maxv)
                 THEN "ALERT"
             ELSE IF CrossesWarn(args.norm, args.avg) \/ CrossesWarn(args.norm, args.maxv)
                 THEN "WARN"
             ELSE "OK"
        /\ Urgency(ret[1][1]) >= Urgency(Alone(args.norm, args.avg))
        /\ Urgency(ret[1][1]) >= Urgency(Alone(args.norm, args.maxv))

\* only the maximum crosses the alert boundary, the average crosses nothing
C3_Witness ==
    /\ fn = "classify_perf" /\ Returned /\ args.norm = KeyCpu
    /\ Alone(args.norm, args.avg) = "OK"
    /\ Alone(args.norm, args.maxv) = "ALERT"
    /\ ret[1][1] = "ALERT"

(* C4: a record whose primary numeric field is absent never classifies as    *)
(* OK: a disk with no FreePercent, a resource snapshot with no               *)
(* CpuLoadPercent or no MemoryUsedPercent, a performance-counter row whose   *)
(* Avg and Max cells are missing or empty.                                   *)
CellAbsent(cell) == cell.kind \in {"missing", "empty"}

C4_AbsentNeverOK ==
    /\ (fn = "classify_disk" /\ Returned /\ IsNone(args.d.FreePercent)) =>
        ret[1][1] \in {"WARN", "ALERT"}
    /\ (fn = "classify_resource" /\ Returned /\ IsNone(args.r.CpuLoadPercent)) =>
        ret[1][1][1] \in {"WARN", "ALERT"}
    /\ (fn = "classify_resource" /\ Returned /\ IsNone(args.r.MemoryUsedPercent)) =>
        ret[1][2][1] \in {"WARN", "ALERT"}
    /\ (fn = "read_perf_summary" /\ Returned
            /\ CellAbsent(args.r.Avg) /\ CellAbsent(args.r.Max)) =>
        (~ret[1].raised /\ ret[1].status \in {"WARN", "ALERT"})

(* C5: a job whose last_success cell is absent (missing, empty, blank or     *)
(* unparsable) is ALERT, whatever last_result, the thresholds and the        *)
(* fail_on_warning_result flag are.                                          *)
LastSuccessAbsent(r) == IsNone(r.last_success) \/ r.last_success[1].form # "iso"

C5_NoLastSuccessIsAlert ==
    (fn = "classify_job" /\ Returned /\ LastSuccessAbsent(args.r)) =>
        ret[1][1] = "ALERT"

\* an unparsable last_success on a job whose result is a success
C5_Witness ==
    /\ fn = "classify_job" /\ Returned
    /\ args.r.last_success = Some(TsGarbage)
    /\ args.r.last_result = Some(<<"SUCCESS">>)
    /\ IsNone(args.t.allowed_warning_values) /\ IsNone(args.t.allowed_fail_values)
    /\ ret[1][1] = "ALERT"
    /\ ret[1][2][1].text = "No last_success timestamp"

\* membership of a result in a configured list, compared case-insensitively
InValuesCI(result, values) == \E v \in Range(values) : Lower(v) = Lower(result)

SuccessValues(t) == Get(t.allowed_success_values, <<<<"success">>>>)

WarningValues(t) == Get(t.allowed_warning_values, <<<<"warning">>>>)

FailValues(t) == Get(t.allowed_fail_values, <<<<"failed">>, <<"error">>>>)

Escalate(t) == Get(t.fail_on_warning_result, FALSE)

\* the result text of the job built from row r
ResultOf(r) == from_row(r).last_result

\* categorical severity of a result: failure, then warning, then anything else
Categorical(r, t) ==
    IF InValuesCI(ResultOf(r), FailValues(t)) THEN "ALERT"
    ELSE IF InValuesCI(ResultOf(r), WarningValues(t))
        THEN (IF Escalate(t) THEN "ALERT" ELSE "WARN")
    ELSE "OK"

LastSuccessNaive(r) ==
    ~IsNone(r.last_success) /\ r.last_success[1].form = "iso" /\ ~r.last_success[1].aware

\* elapsed seconds since the last success of row r
Elapsed(a) == a.now - a.r.last_success[1].at

\* staleness severity of an elapsed time
Staleness(a) ==
    IF Elapsed(a) >= Get(a.t.stale_days, 3) * SecondsPerDay THEN "ALERT"
    ELSE IF Elapsed(a) >= Get(a.t.warning_days, 2) * SecondsPerDay THEN "WARN"
    ELSE "OK"

HasResultPart(reason) ==
    \E i \in DOMAIN reason : reason[i].text = "Last result is {job.last_result}"

HasDaysPart(reason) ==
    \E i \in DOMAIN reason :
        reason[i].text \in {"Stale: last success {d:.1f} days ago",
                            "Approaching stale: last success {d:.1f} days ago",
                            "; also last success {d:.1f} days ago"}

C7_BothReasons ==
    (fn = "classify_job" /\ Returned /\ LastSuccessNaive(args.r)
        /\ Categorical(args.r, args.t) # "OK" /\ Staleness(args) # "OK") =>
        (HasResultPart(ret[1][2]) /\ HasDaysPart(ret[1][2]))

----------------------------------------------------------------------------
(* Properties of the endpoint report *)

\* the service's name, as main reads it (trimmed), matches an allow-list entry
\* case-insensitively
AllowListed(s, th) ==
    \E a \in Range(Get(th.service_allowlist, <<>>)) : Lower(a) = Lower(ServiceName(s))

ServicesDone == pc \in {"reboot", "defender", "sort", "write_json", "write_html", "done"}

ServicesFindingsOf(list) == {k \in DOMAIN list : list[k].category = Msg("Services", <<>>)}

(* C9: an allow-listed service contributes nothing: it is not in             *)
(* auto_stopped, it is not counted in the message of the Services finding    *)
(* (which counts exactly the services that are not allow-listed), and when   *)
(* every input service is allow-listed there is no Services finding at all.  *)
C9_AllowListedContributeNothing ==
    ServicesDone =>
        LET listed == {k \in DOMAIN services : AllowListed(services[k], thresholds)}
            others == DOMAIN services \ listed
            sf == ServicesFindingsOf(findings)
        IN /\ \A k \in DOMAIN auto_stopped : ~AllowListed(auto_stopped[k], thresholds)
           /\ Len(auto_stopped) = Cardinality(others)
           /\ \A k \in sf : findings[k].message.args = <<Cardinality(others)>>
           /\ Cardinality(sf) = IF others = {} THEN 0 ELSE 1
           /\ ~IsNone(outdir.report_json) =>
                 outdir.report_json[1].auto_services_stopped = auto_stopped

\* "Spooler" and " spooler " are allow-listed by "SPOOLER", "BITS" is not: one
\* service is counted
C9_Witness ==
    /\ pc = "done"
    /\ services = <<[Name |-> Some(<<"Spooler">>)], [Name |-> Some(<<"BITS">>)]>>
    /\ thresholds.service_allowlist = Some(<<<<"SPOOLER">>>>)
    /\ auto_stopped = <<[Name |-> Some(<<"BITS">>)]>>
    /\ \E k \in DOMAIN findings : findings[k].message.args = <<1>>

\* every service allow-listed: no Services finding
C9_WitnessAll ==
    /\ pc = "done"
    /\ services = <<[Name |-> Some(<<"Spooler">>)], [Name |-> Some(<<SP, "spooler", SP>>)]>>
    /\ thresholds.service_allowlist = Some(<<<<"SPOOLER">>>>)
    /\ auto_stopped = <<>>
    /\ ServicesFindingsOf(findings) = {}

\* the findings of one status, in list order
OfStatus(list, status) == LET Is(f) == f.status = status IN SelectSeq(list, Is)

\* out is list ordered ALERT, WARN, OK, equal severities keeping their order
IsStableSeveritySort(out, list) ==
    /\ Len(out) = Len(list)
    /\ \A k \in 1..(Len(out) - 1) : Urgency(out[k].status) >= Urgency(out[k + 1].status)
    /\ \A st \in Severity : OfStatus(out, st) = OfStatus(list, st)

ScenarioFinding(status, name) == Finding(status, Msg(name, <<>>), Msg("", <<>>))

(* C10: the sort step of main leaves a permutation of the findings produced  *)
(* by classification, ordered ALERT before WARN before OK, findings of equal *)
(* severity keeping their input order; and the sort gives                    *)
(* [ALERT(A), ALERT(D), WARN(B), OK(C)] for [ALERT(A), WARN(B), OK(C),       *)
(* ALERT(D)]; report.json holds the findings in that order.                  *)
C10_StableSeveritySort ==
    [][/\ pc = "write_json" => outdir'.report_json[1].findings = findings
       /\ pc = "sort" =>
        /\ IsStableSeveritySort(findings', findings)
        /\ sort_findings(<<ScenarioFinding("ALERT", "A"), ScenarioFinding("WARN", "B"),
                           ScenarioFinding("OK", "C"), ScenarioFinding("ALERT", "D")>>)
           = <<ScenarioFinding("ALERT", "A"), ScenarioFinding("ALERT", "D"),
               ScenarioFinding("WARN", "B"), ScenarioFinding("OK", "C")>>]_vars

\* the written report lists two ALERTs that were classified after two WARNs:
\* WARN(disk), ALERT(disk C:), ALERT(CPU), WARN(Memory) became
\* ALERT(disk C:), ALERT(CPU), WARN(disk), WARN(Memory)
C10_Witness ==
    /\ pc = "done"
    /\ disks # <<>> /\ disks[1].status_ = Some("WARN")
    /\ Len(findings) >= 4
    /\ findings[1].status = "ALERT" /\ findings[1].category.args = <<<<"C:">>>>
    /\ findings[2].status = "ALERT" /\ findings[2].category.text = "CPU"
    /\ findings[3].status = "WARN" /\ findings[3].category.args = <<<<>>>>
    /\ findings[4].status = "WARN" /\ findings[4].category.text = "Memory"

----------------------------------------------------------------------------
(* Properties of the backup main *)

\* the days since success a result row is ordered by: the value of its
\* days_since_success cell, 0 when the cell is empty
DaysKey(r) == IF IsNone(r.days_since_success) THEN 0 ELSE r.days_since_success[1]

\* a and b are the same result row: every cell, and the texts of the reason
SameRow(a, b) ==
    /\ <<a.job_name, a.last_result, a.last_run, a.last_success, a.days_since_success,
         a.duration_minutes, a.status, a.notes>>
       = <<b.job_name, b.last_result, b.last_run, b.last_success, b.days_since_success,
           b.duration_minutes, b.status, b.notes>>
    /\ [k \in DOMAIN a.reason |-> a.reason[k].text]
       = [k \in DOMAIN b.reason |-> b.reason[k].text]

Perms(n) == {p \in [1..n -> 1..n] : \A a, b \in 1..n : a # b => p[a] # p[b]}

\* out is list reordered: more severe first, within one severity more days
\* first, rows equal on both in their order in list
IsBackupOrder(out, list) ==
    /\ Len(out) = Len(list)
    /\ \E p \in Perms(Len(list)) :
        /\ \A k \in 1..Len(list) : SameRow(out[k], list[p[k]])
        /\ \A a, b \in 1..Len(list) : a < b =>
            \/ Urgency(out[a].status) > Urgency(out[b].status)
            \/ /\ out[a].status = out[b].status
               /\ DaysKey(out[a]) > DaysKey(out[b])
            \/ /\ out[a].status = out[b].status
               /\ DaysKey(out[a]) = DaysKey(out[b])
               /\ p[a] < p[b]

----------------------------------------------------------------------------
(* Properties of the runs of the three programs *)

\* the run has ended: main returned, or an exception left it
RunEnded == pc \in {"done", "raised"}

Written(artifact) == "report_json" \in DOMAIN outdir /\ outdir[artifact] # None

(* C12: a run of any of the three programs that has ended, by returning or   *)
(* by an exception, has written both report.json and report.html or neither  *)
(* of them; a run that returned has written both.                            *)
C12_BothArtifactsOrNone ==
    RunEnded =>
        /\ Written("report_json") <=> Written("report_html")
        /\ pc = "done" => Written("report_json") /\ Written("report_html")

\* the disk loop of the endpoint main has ended
DisksDone ==
    IsEndpointRun /\ pc \in {"services", "reboot", "defender", "sort", "write_json",
                            "write_html", "done", "raised"}

\* the job loop of the backup main has ended
JobsDone ==
    IsBackupRun /\ pc \in {"build_html", "write_backup_html", "write_backup_json", "done"}

\* read_perf_summary has returned
PerfRead ==
    IsPerfRun /\ pc \in {"perf_build_html", "write_perf_html", "write_perf_json", "done"}

\* the finding of a disk whose Drive is drive
IsDiskFinding(f, drive) ==
    f.category.text = "Disk {Drive}" /\ f.category.args = <<TextOrEmpty(drive)>>

----------------------------------------------------------------------------
(* Properties of normalize_counter_path *)

KnownKeys == {KeyCpu, KeyCommitted, KeyAvailable, KeyDiskQueue}

(* C14: two raw counter paths that differ only in their leading host-name    *)
(* segment (any host name, or none) and in letter case have the same         *)
(* normalized key, the path without host in lower case; for the same avg and *)
(* max they get the same classify_perf status and reason and the same        *)
(* friendly name; the friendly name of a key that is not in the table is the *)
(* key itself.                                                               *)
C14_HostAndCaseIndependent ==
    (fn = "normalize_counter_path" /\ Returned) =>
        LET a == ret[1].a
            b == ret[1].b
        IN /\ a.counter_norm = b.counter_norm
           /\ a.counter_norm = args.body.lower
           /\ a.status = b.status /\ a.reason = b.reason
           /\ a.counter_name = b.counter_name
           /\ a.counter_norm \notin KnownKeys => a.counter_name = a.counter_norm

\* \\HOST\Processor(_Total)\% Processor Time and the lower-case path with no
\* host, both with avg 80 and max 80, are both WARN under the CPU thresholds
C14_Witness ==
    /\ fn = "normalize_counter_path" /\ Returned
    /\ args.a = <<BS, BS, "HOST", BS, "Processor(_Total)", BS, "% Processor Time">>
    /\ args.b = <<BS, "processor(_total)", BS, "% processor time">>
    /\ args.avg = 80 /\ args.maxv = 80
    /\ ret[1].a.status = "WARN" /\ ret[1].b.status = "WARN"
    /\ ret[1].a.counter_name = <<"CPU % Processor Time (Total)">>

----------------------------------------------------------------------------
(* Properties of the endpoint main *)

\* the CPU / memory step of the endpoint main has run
ResourceDone ==
    IsEndpointRun /\ pc \in {"services", "reboot", "defender", "sort", "write_json",
                            "write_html", "done", "raised"}

\* the run's findings of one category
FindingsOf(category) ==
    LET Is(f) == f.category = Msg(category, <<>>) IN SelectSeq(findings, Is)

\* CPU absent, memory at 50%, warn = 70 and alert = 85 for both
ResourceScenario ==
    /\ resource.CpuLoadPercent = None /\ resource.MemoryUsedPercent = Some(50)
    /\ thresholds.cpu_warn_pct = 70 /\ thresholds.cpu_alert_pct = 85
    /\ thresholds.mem_used_warn_pct = 70 /\ thresholds.mem_used_alert_pct = 85

----------------------------------------------------------------------------
(* Frame properties of the runs *)

\* the records of the run have been loaded
Loaded == pc \notin {"read", "load_jobs", "check_files", "read_perf"}

\* the step leaves resource, service, reboot, defender and job records and
\* the thresholds as they are
OtherRecordsKept ==
    /\ resource' = resource /\ services' = services
    /\ reboot' = reboot /\ defender' = defender
    /\ jobs' = jobs
    /\ thresholds' = thresholds

(* C16 as stated: once loaded, no disk, resource, service or job record      *)
(* changes, and the thresholds at the end of the run are those loaded.       *)
C16_NeverMutated ==
    [][/\ Loaded => (disks' = disks /\ OtherRecordsKept)
       /\ RunEnded' => (IsPerfRun \/ thresholds' = files.thresholds)]_vars

(* C16 amended: once loaded, no resource, service or job record changes and  *)
(* the thresholds at the end of the run are those loaded; a disk record      *)
(* keeps the fields and values it was loaded with, and the disk loop of the  *)
(* endpoint main adds to it, once, its _status and _note, which are the      *)
(* status and note classify_disk gives the record.                           *)
C16_OnlyDisksAnnotated ==
    [][/\ Loaded =>
            /\ OtherRecordsKept
            /\ Len(disks') = Len(disks)
            /\ \A k \in DOMAIN disks :
                /\ disks'[k].Drive = disks[k].Drive
                /\ disks'[k].FreePercent = disks[k].FreePercent
                /\ disks'[k] # disks[k] =>
                    /\ pc = "disks" /\ k = disk_idx
                    /\ disks[k].status_ = None /\ disks[k].note_ = None
                    /\ disks'[k].status_ = Some(classify_disk(disks[k], thresholds)[1])
                    /\ disks'[k].note_ = Some(classify_disk(disks[k], thresholds)[2])
       /\ RunEnded' => (IsPerfRun \/ thresholds' = files.thresholds)]_vars

\* a run has ended whose disk with no Drive, loaded without _status, holds
\* _status = WARN, its resource and service records being those loaded
C16_Witness ==
    /\ pc = "done" /\ IsEndpointRun
    /\ disks # <<>>
    /\ ensure_list(files.disk)[1].status_ = None
    /\ disks[1].Drive = None /\ disks[1].status_ = Some("WARN")
    /\ resource = files.resource /\ services = ensure_list(files.services)
    /\ services # <<>>

----------------------------------------------------------------------------
(* report.html against report.json *)

\* the endpoint report.html shows nothing but what the report.json doc holds
EndpointHtmlWithinJson(page, doc) ==
    /\ page.summary = <<doc.system_info.v[1].Hostname, CountStatus(doc.findings, "ALERT"),
                        CountStatus(doc.findings, "WARN")>>
    /\ Len(page.findings_rows) = Len(doc.findings)
    /\ \A k \in DOMAIN page.findings_rows :
        /\ page.findings_rows[k][1].text = doc.findings[k].status
        /\ page.findings_rows[k][2] = doc.findings[k].category
        /\ page.findings_rows[k][3] = doc.findings[k].message
    /\ Len(page.disks_rows) = Len(doc.disk)
    /\ \A k \in DOMAIN page.disks_rows :
        page.disks_rows[k] = <<doc.disk[k].Drive, doc.disk[k].FreePercent,
                               doc.disk[k].status_, doc.disk[k].note_>>
    /\ Len(page.services_rows) = Len(doc.auto_services_stopped)
    /\ \A k \in DOMAIN page.services_rows :
        page.services_rows[k] = <<doc.auto_services_stopped[k].Name>>
    /\ page.reboot_line = "Pending reboot: YES" <=> doc.reboot.Pending = Some(TRUE)
    /\ page.defender_row = <<doc.defender.Available, doc.defender.RealTimeProtectionEnabled>>

\* a row of the backup report.html's alert or warning table is a result of doc
BackupRowWithinJson(row, doc, status) ==
    \E k \in DOMAIN doc.results :
        /\ doc.results[k].status = status
        /\ row[1] = doc.results[k].job_name /\ row[2] = doc.results[k].last_result
        /\ row[3] = doc.results[k].last_success
        /\ row[4] = doc.results[k].days_since_success

\* the backup report.html shows nothing but what the report.json doc holds
BackupHtmlWithinJson(page, doc) ==
    /\ page.summary[1] = Len(doc.results)
    /\ page.summary[2] = CountStatus(doc.results, "OK")
    /\ page.summary[3] = CountStatus(doc.results, "WARN")
    /\ page.summary[4] = CountStatus(doc.results, "ALERT")
    /\ Len(page.all_rows) = Len(doc.results)
    /\ \A k \in DOMAIN page.all_rows :
        /\ page.all_rows[k][1].text = doc.results[k].status
        /\ page.all_rows[k][2] = doc.results[k].job_name
        /\ page.all_rows[k][3] = doc.results[k].last_result
        /\ page.all_rows[k][4] = doc.results[k].last_run
        /\ page.all_rows[k][5] = doc.results[k].last_success
        /\ page.all_rows[k][6] = doc.results[k].days_since_success
        /\ page.all_rows[k][7] = doc.results[k].duration_minutes
        /\ Len(page.all_rows[k][8]) = Len(doc.results[k].reason)
    /\ \A k \in DOMAIN page.alert_rows : BackupRowWithinJson(page.alert_rows[k], doc, "ALERT")
    /\ \A k \in DOMAIN page.warn_rows : BackupRowWithinJson(page.warn_rows[k], doc, "WARN")

\* the number of events of one level, among those of one log, that doc holds
JsonCount(counts, lvl) == IF lvl \in DOMAIN counts THEN counts[lvl] ELSE 0

\* a row of the event summary is the counts doc holds for that log
SummaryWithinJson(row, counts) ==
    /\ row.Critical = JsonCount(counts, <<"Critical">>)
    /\ row.Error = JsonCount(counts, <<"Error">>)
    /\ row.Warning = JsonCount(counts, <<"Warning">>)
    /\ row.Information = JsonCount(counts, <<"Information">>)
    /\ row.Total = row.Critical + row.Error + row.Warning + row.Information + row.Other

\* the performance and event-count part of the log report.html shows nothing
\* but what the report.json doc holds
PerfTablesWithinJson(page, doc) ==
    /\ Len(page.perf_rows) = Len(doc.perf)
    /\ \A k \in DOMAIN page.perf_rows :
        /\ page.perf_rows[k].counter_name = doc.perf[k].counter_name
        /\ page.perf_rows[k].avg = 1000 * doc.perf[k].avg
        /\ page.perf_rows[k].max = 1000 * doc.perf[k].max
        /\ page.perf_rows[k].samples = doc.perf[k].samples
        /\ page.perf_rows[k].status = doc.perf[k].status
        /\ page.perf_rows[k].reason = doc.perf[k].reason
    /\ \A k \in DOMAIN page.alerts :
        \E j \in DOMAIN doc.perf :
            /\ page.alerts[k][1].text = doc.perf[j].status
            /\ page.alerts[k][2] = doc.perf[j].counter_name
            /\ page.alerts[k][3] = doc.perf[j].reason
    /\ SummaryWithinJson(page.events_summary[1], doc.event_counts.system)
    /\ SummaryWithinJson(page.events_summary[2], doc.event_counts.application)
    /\ page.window = doc.window_minutes

\* the event records the report.json doc of the log report holds: it has the
\* keys generated_at, window_minutes, system_info, perf and event_counts
JsonEventRecords(doc) == IF "events" \in DOMAIN doc THEN Range(doc.events) ELSE {}

\* every event record the log report.html lists is held by doc
PerfEventsWithinJson(page, doc) ==
    /\ \A k \in DOMAIN page.newest_sys : page.newest_sys[k] \in JsonEventRecords(doc)
    /\ \A k \in DOMAIN page.newest_app : page.newest_app[k] \in JsonEventRecords(doc)

\* the run wrote both artifacts
BothWritten == pc = "done" /\ Written("report_json") /\ Written("report_html")

(* C17: for each of the three programs, every record, count, status and      *)
(* reason that report.html shows is contained in the report.json written by  *)
(* the same run.                                                             *)
C17_HtmlWithinJson ==
    BothWritten =>
        LET page == outdir.report_html[1]
            doc == outdir.report_json[1]
        IN /\ IsEndpointRun => EndpointHtmlWithinJson(page, doc)
           /\ IsBackupRun => BackupHtmlWithinJson(page, doc)
           /\ IsPerfRun => PerfTablesWithinJson(page, doc) /\ PerfEventsWithinJson(page, doc)

====
